---- MODULE Spec2Model ----
(***************************************************************************)
(* AllocationProof of str-concat (src/src/proof.rs).                       *)
(*                                                                         *)
(* A proof records the address range [begin, end) of one borrowed value.   *)
(* Its four merge methods first test both operands with `within` and then  *)
(* hand them to the crate-level unsafe functions super::concat*, which     *)
(* test adjacency and build the merged slice.                              *)
(*                                                                         *)
(* A reference (&str, &[T]) is modelled by its address, its element count, *)
(* the size of one element and, as ghost information the program never     *)
(* reads, the allocation it was derived from.                              *)
(***************************************************************************)
EXTENDS Integers, Sequences, FiniteSets

\* Largest byte size of the witnessed value.
MaxAlloc == 4
\* Byte size of the foreign allocation Y.
YSize == 1
\* Largest element size size_of::<T>() of a slice operand (str is bytes: 1).
MaxElemSize == 2

ElemSizes == 1..MaxElemSize

\* Address of the witnessed value: a margin byte and Y fit before it, with or
\* without a gap.
XBase == YSize + 2

VARIABLES
    xobj,     \* the value the proof is built from
    xalloc,   \* the allocation X that holds the value: [addr, size]
    yalloc,   \* a different allocation Y: [addr, size]
    ctor,     \* "none", "new" or "new_mut": how the proof was constructed
    proof,    \* the AllocationProof: [begin, end]
    mutref,   \* the &mut T handed back by new_mut
    last      \* the most recent merge call: operands, result, event trace

vars == <<xobj, xalloc, yalloc, ctor, proof, mutref, last>>

----------------------------------------------------------------------------
(* References and results                                                  *)

Ref(p, n, e, t) == [addr |-> p, len |-> n, esz |-> e, alloc |-> t]

NoRef == Ref(0, 0, 1, "none")

\* mem::size_of_val of a str or slice: element count times element size.
size_of_val(r) == r.len * r.esz

Ev(name, ret) == [ev |-> name, ret |-> ret]

Ok(r, tr) == [ok |-> TRUE, val |-> r, err |-> "none", trace |-> tr]

Err(tr) == [ok |-> FALSE, val |-> NoRef, err |-> "NotAdjacent", trace |-> tr]

\* slice::from_raw_parts(a_ptr, new_len): same pointer, new element count.
from_raw_parts(a, new_len) == Ref(a.addr, new_len, a.esz, a.alloc)

----------------------------------------------------------------------------
(* The crate-level unsafe functions (lib.rs): adjacency test, then span.   *)

super_concat_slice(a, b) ==
    LET a_end == a.addr + a.len * a.esz
        adj   == a_end = b.addr
    IN  IF adj
        THEN Ok(from_raw_parts(a, a.len + b.len),
                <<Ev("adjacent", TRUE), Ev("from_raw_parts", TRUE)>>)
        ELSE Err(<<Ev("adjacent", FALSE)>>)

super_concat(a, b) == super_concat_slice(a, b)

super_concat_slice_unordered(a, b) ==
    LET a_end == a.addr + a.len * a.esz
        b_end == b.addr + b.len * b.esz
    IN  IF a_end = b.addr
        THEN super_concat_slice(a, b)
        ELSE IF b_end = a.addr
             THEN LET r == super_concat_slice(b, a)
                  IN  [r EXCEPT !.trace = <<Ev("adjacent", FALSE)>> \o r.trace]
             ELSE Err(<<Ev("adjacent", FALSE), Ev("adjacent", FALSE)>>)

super_concat_unordered(a, b) == super_concat_slice_unordered(a, b)

----------------------------------------------------------------------------
(* AllocationProof                                                         *)

new_elem_count(obj) ==
    [begin |-> obj.addr, end |-> obj.addr + obj.len]

new(obj) ==
    LET begin == obj.addr
        end   == begin + size_of_val(obj)
    IN  [begin |-> begin, end |-> end]

new_mut(obj) ==
    LET begin == obj.addr
        end   == begin + size_of_val(obj)
    IN  [proof |-> [begin |-> begin, end |-> end], ref |-> obj]

within_strict_end(self, a) ==
    LET a_end == a.addr + size_of_val(a)
    IN  self.begin <= a.addr /\ a_end < self.end

within_strict_begin(self, a) ==
    LET a_end == a.addr + size_of_val(a)
    IN  self.begin < a.addr /\ a_end <= self.end

within_no_begin(self, a) ==
    LET a_end == a.addr + size_of_val(a)
    IN  a_end <= self.end

within_end_inclusive(self, a) ==
    LET a_end == a.addr + size_of_val(a)
    IN  self.begin <= a.addr /\ a_end <= self.end + 1

within_elem_count(self, a) ==
    LET a_end == a.addr + a.len
    IN  self.begin <= a.addr /\ a_end <= self.end

within(self, a) ==
    LET a_len  == size_of_val(a)
        a_addr == a.addr
        a_end  == a_addr + a_len
    IN  self.begin <= a_addr /\ a_end <= self.end

\* `!self.within(a) || !self.within(b)`: b is tested only when a passed.
Checks(self, a, b) ==
    IF within(self, a)
    THEN <<Ev("within_a", TRUE), Ev("within_b", within(self, b))>>
    ELSE <<Ev("within_a", FALSE)>>

\* `unsafe { super::f(a, b) }`: the events of the call follow the checks.
UnsafeCall(checks, r) ==
    [r EXCEPT !.trace = checks \o <<Ev("unsafe_call", TRUE)>> \o r.trace]

concat_slice_unchecked_b(self, a, b) ==
    IF ~within(self, a)
    THEN Err(<<Ev("within_a", FALSE)>>)
    ELSE UnsafeCall(<<Ev("within_a", TRUE)>>, super_concat_slice(a, b))

concat_slice(self, a, b) ==
    IF ~within(self, a) \/ ~within(self, b)
    THEN Err(Checks(self, a, b))
    ELSE UnsafeCall(Checks(self, a, b), super_concat_slice(a, b))

concat_calls_unordered(self, a, b) ==
    IF ~within(self, a) \/ ~within(self, b)
    THEN Err(Checks(self, a, b))
    ELSE UnsafeCall(Checks(self, a, b), super_concat_unordered(a, b))

concat(self, a, b) ==
    IF ~within(self, a) \/ ~within(self, b)
    THEN Err(Checks(self, a, b))
    ELSE UnsafeCall(Checks(self, a, b), super_concat(a, b))

concat_slice_unordered_dup_operand(self, a, b) ==
    IF ~within(self, a) \/ ~within(self, b)
    THEN Err(Checks(self, a, b))
    ELSE UnsafeCall(Checks(self, a, b), super_concat_slice_unordered(a, a))

concat_slice_unordered(self, a, b) ==
    IF ~within(self, a) \/ ~within(self, b)
    THEN Err(Checks(self, a, b))
    ELSE UnsafeCall(Checks(self, a, b), super_concat_slice_unordered(a, b))

concat_unordered_calls_ordered(self, a, b) ==
    IF ~within(self, a) \/ ~within(self, b)
    THEN Err(Checks(self, a, b))
    ELSE UnsafeCall(Checks(self, a, b), super_concat(a, b))

concat_unordered(self, a, b) ==
    IF ~within(self, a) \/ ~within(self, b)
    THEN Err(Checks(self, a, b))
    ELSE UnsafeCall(Checks(self, a, b), super_concat_unordered(a, b))

----------------------------------------------------------------------------
(* The caller: memory layout, references it can form, calls it makes       *)

\* Every slice the caller can borrow out of the allocation [base, base+size).
SubSlices(base, size, t) ==
    {r \in {Ref(p, n, e, t) : p \in base..(base + size), n \in 0..size,
                              e \in ElemSizes} :
        r.addr + r.len * r.esz <= base + size}

Values ==
    {o \in {Ref(XBase, n, e, "X") : n \in 0..MaxAlloc, e \in ElemSizes} :
        o.len * o.esz <= MaxAlloc}

\* The value is a whole allocation, or the middle of one that has a byte
\* before it and a byte after it.
Enclosing(x) ==
    {[addr |-> x.addr, size |-> size_of_val(x)],
     [addr |-> x.addr - 1, size |-> size_of_val(x) + 2]}

\* Y lies right before X, before it with a gap, right after it, or after a
\* gap; around a value with margins, Y lies right after X.
YPlaces(x, al) ==
    IF al.addr = x.addr
    THEN {al.addr - YSize, al.addr - YSize - 1,
          al.addr + al.size, al.addr + al.size + 1}
    ELSE {al.addr + al.size}

Slices ==
    SubSlices(xalloc.addr, xalloc.size, "X")
        \cup SubSlices(yalloc.addr, yalloc.size, "Y")

NoCall ==
    [op |-> "none", a |-> NoRef, b |-> NoRef, fed |-> FALSE,
     ok |-> FALSE, val |-> NoRef, err |-> "none", trace |-> <<>>]

\* The record of a call; fed: an operand is the result of the call before.
Call(op, a, b, r) ==
    [op |-> op, a |-> a, b |-> b, fed |-> last.op # "none",
     ok |-> r.ok, val |-> r.val, err |-> r.err, trace |-> r.trace]

\* Operand pairs of the next call: two borrowed slices of one element type,
\* or the region the previous call returned together with a borrowed slice.
Operands ==
    IF last.op = "none"
    THEN {ab \in Slices \X Slices : ab[1].esz = ab[2].esz}
    ELSE IF last.ok
         THEN {ab \in ({last.val} \X Slices) \cup (Slices \X {last.val}) :
                  ab[1].esz = ab[2].esz}
         ELSE {}

Init ==
    /\ xobj \in Values
    /\ xalloc \in Enclosing(xobj)
    /\ yalloc \in {[addr |-> p, size |-> YSize] : p \in YPlaces(xobj, xalloc)}
    /\ ctor = "none"
    /\ proof = [begin |-> 0, end |-> 0]
    /\ mutref = NoRef
    /\ last = NoCall

New ==
    /\ ctor = "none"
    /\ ctor' = "new"
    /\ proof' = new(xobj)
    /\ UNCHANGED <<xobj, xalloc, yalloc, mutref, last>>

NewMut ==
    /\ ctor = "none"
    /\ ctor' = "new_mut"
    /\ proof' = new_mut(xobj).proof
    /\ mutref' = new_mut(xobj).ref
    /\ UNCHANGED <<xobj, xalloc, yalloc, last>>

ConcatSlice ==
    /\ ctor # "none"
    /\ \E ab \in Operands :
          last' = Call("concat_slice", ab[1], ab[2],
                       concat_slice(proof, ab[1], ab[2]))
    /\ UNCHANGED <<xobj, xalloc, yalloc, ctor, proof, mutref>>

\* &str operands: byte elements.
Concat ==
    /\ ctor # "none"
    /\ \E ab \in Operands :
          /\ ab[1].esz = 1
          /\ last' = Call("concat", ab[1], ab[2], concat(proof, ab[1], ab[2]))
    /\ UNCHANGED <<xobj, xalloc, yalloc, ctor, proof, mutref>>

ConcatSliceUnordered ==
    /\ ctor # "none"
    /\ \E ab \in Operands :
          last' = Call("concat_slice_unordered", ab[1], ab[2],
                       concat_slice_unordered(proof, ab[1], ab[2]))
    /\ UNCHANGED <<xobj, xalloc, yalloc, ctor, proof, mutref>>

ConcatUnordered ==
    /\ ctor # "none"
    /\ \E ab \in Operands :
          /\ ab[1].esz = 1
          /\ last' = Call("concat_unordered", ab[1], ab[2],
                          concat_unordered(proof, ab[1], ab[2]))
    /\ UNCHANGED <<xobj, xalloc, yalloc, ctor, proof, mutref>>

\* The caller lets go of the result of the last call.
Release ==
    /\ last.op # "none"
    /\ last' = NoCall
    /\ UNCHANGED <<xobj, xalloc, yalloc, ctor, proof, mutref>>

Next ==
    \/ New
    \/ NewMut
    \/ ConcatSlice
    \/ Concat
    \/ ConcatSliceUnordered
    \/ ConcatUnordered
    \/ Release

Spec == Init /\ [][Next]_vars

----------------------------------------------------------------------------
(* Vocabulary of the properties                                            *)

ByteLen(r) == r.len * r.esz

EndAddr(r) == r.addr + ByteLen(r)

Bytes(r) == r.addr..(EndAddr(r) - 1)

\* r lies in the witnessed range: begin <= start and start + bytes <= end.
InProof(r) == proof.begin <= r.addr /\ EndAddr(r) <= proof.end

SameRegion(r, s) == r.addr = s.addr /\ r.len = s.len /\ r.esz = s.esz

IsSliceOfY(r) ==
    /\ r.alloc = "Y"
    /\ yalloc.addr <= r.addr
    /\ EndAddr(r) <= yalloc.addr + yalloc.size

Called == last.op # "none"

Ordered == last.op \in {"concat", "concat_slice"}

Unordered == last.op \in {"concat_unordered", "concat_slice_unordered"}

IsOk == last.ok /\ last.err = "none"

NotAdjacent == ~last.ok /\ last.err = "NotAdjacent" /\ last.val = NoRef

\* The region from the start of `first` covering both operands of the call.
Span(first) == Ref(first.addr, last.a.len + last.b.len, first.esz, first.alloc)

Method(op, a, b) ==
    CASE op = "concat" -> concat(proof, a, b)
      [] op = "concat_slice" -> concat_slice(proof, a, b)
      [] op = "concat_unordered" -> concat_unordered(proof, a, b)
      [] op = "concat_slice_unordered" -> concat_slice_unordered(proof, a, b)

Count(name) ==
    Cardinality({i \in DOMAIN last.trace : last.trace[i].ev = name})

----------------------------------------------------------------------------
\* C1: concat and concat_slice return Ok exactly when both operands lie in
\* [begin, end] and a ends where b starts; the Ok region starts at a, has
\* len(a) + len(b) elements and ends at b's end; otherwise Err(NotAdjacent).
C1_OrderedContract ==
    Ordered =>
        /\ IsOk <=> (InProof(last.a) /\ InProof(last.b)
                        /\ EndAddr(last.a) = last.b.addr)
        /\ IsOk => /\ last.val.addr = last.a.addr
                   /\ last.val.len = last.a.len + last.b.len
                   /\ last.val.esz = last.a.esz
                   /\ EndAddr(last.val) = EndAddr(last.b)
        /\ ~IsOk => NotAdjacent

C1_Witness ==
    /\ last.op = "concat_slice"
    /\ IsOk
    /\ last.a.esz = 2
    /\ last.a.len > 0
    /\ last.b.len > 0

\* C2 (as claimed): for an allocation split into a then b, the ordered merge
\* of (b, a) fails with NotAdjacent and the ordered merge of (a, b) returns
\* the whole span.
C2_WrongOrderFails_Claimed ==
    /\ (/\ Ordered
        /\ last.b.addr = proof.begin
        /\ EndAddr(last.b) = last.a.addr
        /\ EndAddr(last.a) = proof.end) => NotAdjacent
    /\ (/\ Ordered
        /\ last.a.addr = proof.begin
        /\ EndAddr(last.a) = last.b.addr
        /\ EndAddr(last.b) = proof.end) => IsOk /\ last.val = Span(last.a)

\* C2 (amended): for regions a then b inside the witnessed range that are not
\* both empty, the ordered merge of (b, a) fails with NotAdjacent; the
\* ordered merge of (a, b) returns the span from a's start to b's end.
C2_WrongOrderFails ==
    /\ (/\ Ordered
        /\ InProof(last.a) /\ InProof(last.b)
        /\ EndAddr(last.b) = last.a.addr
        /\ ByteLen(last.a) + ByteLen(last.b) > 0) => NotAdjacent
    /\ (/\ Ordered
        /\ InProof(last.a) /\ InProof(last.b)
        /\ EndAddr(last.a) = last.b.addr) => IsOk /\ last.val = Span(last.a)

C2_Witness ==
    /\ last.op = "concat"
    /\ last.b.addr = proof.begin
    /\ EndAddr(last.b) = last.a.addr
    /\ EndAddr(last.a) = proof.end
    /\ ByteLen(last.a) > 0
    /\ ByteLen(last.b) > 0
    /\ NotAdjacent

\* C3: for regions a then b of the witnessed range, the unordered merges of
\* (a, b) and of (b, a) both succeed with the same region: the span from the
\* earlier region's start to the later region's end.
C3_UnorderedSymmetric ==
    (/\ Unordered
     /\ InProof(last.a) /\ InProof(last.b)
     /\ (EndAddr(last.a) = last.b.addr \/ EndAddr(last.b) = last.a.addr)) =>
        LET first   == IF EndAddr(last.a) = last.b.addr THEN last.a ELSE last.b
            swapped == Method(last.op, last.b, last.a)
        IN  /\ IsOk
            /\ last.val = Span(first)
            /\ swapped.ok
            /\ SameRegion(swapped.val, last.val)

C3_Witness ==
    /\ last.op = "concat_unordered"
    /\ EndAddr(last.b) = last.a.addr
    /\ ByteLen(last.a) > 0
    /\ ByteLen(last.b) > 0
    /\ IsOk
    /\ last.val.addr = last.b.addr

\* C4 (as claimed): every merge with an operand that is a region of another
\* allocation Y fails with NotAdjacent, zero-length regions of Y included.
C4_ForeignRejected_Claimed ==
    (Called /\ (IsSliceOfY(last.a) \/ IsSliceOfY(last.b))) => NotAdjacent

\* C4 (amended): every merge with an operand that is a region of another
\* allocation Y fails with NotAdjacent when that region has at least one byte
\* or its address is outside begin..=end.
C4_ForeignRejected ==
    (/\ Called
     /\ \E r \in {last.a, last.b} :
           /\ IsSliceOfY(r)
           /\ (ByteLen(r) > 0 \/ r.addr < proof.begin \/ r.addr > proof.end))
        => NotAdjacent

C4_Witness ==
    /\ last.op = "concat_slice_unordered"
    /\ InProof(last.a)
    /\ ByteLen(last.a) > 0
    /\ IsSliceOfY(last.b)
    /\ ByteLen(last.b) > 0
    /\ EndAddr(last.a) = last.b.addr
    /\ NotAdjacent

\* C5 (as claimed): merging a region R of the witnessed range with a
\* zero-length region at R's start or end returns Ok(R), for all four merges
\* and in both operand positions.
C5_EmptyIdentity_Claimed ==
    Called =>
        \A p \in {<<last.a, last.b>>, <<last.b, last.a>>} :
            (/\ InProof(p[1])
             /\ p[2].len = 0
             /\ p[2].addr \in {p[1].addr, EndAddr(p[1])})
                => IsOk /\ SameRegion(last.val, p[1])

\* C5 (amended): the unordered merges return Ok(R) for a zero-length region
\* at R's start or end in either operand position; the ordered merges return
\* Ok(R) when the zero-length region at R's start is the first operand or the
\* zero-length region at R's end is the second operand.
C5_EmptyIdentity ==
    /\ Unordered =>
        \A p \in {<<last.a, last.b>>, <<last.b, last.a>>} :
            (/\ InProof(p[1])
             /\ p[2].len = 0
             /\ p[2].addr \in {p[1].addr, EndAddr(p[1])})
                => IsOk /\ SameRegion(last.val, p[1])
    /\ Ordered =>
        /\ (/\ InProof(last.b)
            /\ last.a.len = 0
            /\ last.a.addr = last.b.addr) => IsOk /\ SameRegion(last.val, last.b)
        /\ (/\ InProof(last.a)
            /\ last.b.len = 0
            /\ last.b.addr = EndAddr(last.a)) => IsOk /\ SameRegion(last.val, last.a)

C5_Witness ==
    /\ last.op = "concat_unordered"
    /\ ByteLen(last.a) > 0
    /\ last.a.addr = proof.begin
    /\ EndAddr(last.a) = proof.end
    /\ last.b.len = 0
    /\ last.b.addr = last.a.addr
    /\ IsOk
    /\ SameRegion(last.val, last.a)

\* C6: two regions of the witnessed range separated by a gap of at least one
\* byte are rejected with NotAdjacent by all four merges in either order.
C6_GapRejected ==
    (/\ Called
     /\ InProof(last.a) /\ InProof(last.b)
     /\ (EndAddr(last.a) < last.b.addr \/ EndAddr(last.b) < last.a.addr))
        => NotAdjacent

C6_Witness ==
    /\ last.op = "concat_slice_unordered"
    /\ InProof(last.a) /\ InProof(last.b)
    /\ ByteLen(last.a) > 0
    /\ ByteLen(last.b) > 0
    /\ EndAddr(last.b) < last.a.addr
    /\ NotAdjacent

\* C7 (as claimed): the unsafe function is called exactly once in a call that
\* succeeds, only after the containment checks and the adjacency check have
\* passed, and not at all in a call that returns an error.
C7_UnsafeCallOnlyOnSuccess_Claimed ==
    Called =>
        /\ IsOk => Count("unsafe_call") = 1
        /\ \A i \in DOMAIN last.trace :
              last.trace[i].ev = "unsafe_call" =>
                  /\ \E j \in 1..(i - 1) : last.trace[j] = Ev("within_a", TRUE)
                  /\ \E j \in 1..(i - 1) : last.trace[j] = Ev("within_b", TRUE)
                  /\ \E j \in 1..(i - 1) : last.trace[j] = Ev("adjacent", TRUE)
        /\ ~IsOk => Count("unsafe_call") = 0

\* C7 (amended): the unsafe function super::concat* is called exactly once,
\* right after both containment checks passed, and not at all when one of
\* them failed; the adjacency check runs inside that function, which returns
\* NotAdjacent when it fails; the merged slice is built exactly once in a
\* call that succeeds, after the adjacency check passed, and never in a call
\* that returns an error.
C7_UnsafeCallAfterContainment ==
    Called =>
        /\ Count("unsafe_call") =
              IF InProof(last.a) /\ InProof(last.b) THEN 1 ELSE 0
        /\ \A i \in DOMAIN last.trace :
              /\ last.trace[i].ev = "unsafe_call" =>
                    /\ i = 3
                    /\ last.trace[1] = Ev("within_a", TRUE)
                    /\ last.trace[2] = Ev("within_b", TRUE)
              /\ last.trace[i].ev = "adjacent" =>
                    \E j \in 1..(i - 1) : last.trace[j].ev = "unsafe_call"
              /\ last.trace[i].ev = "from_raw_parts" =>
                    /\ i = Len(last.trace)
                    /\ last.trace[i - 1] = Ev("adjacent", TRUE)
        /\ Count("from_raw_parts") = IF IsOk THEN 1 ELSE 0
        /\ IsOk => Count("unsafe_call") = 1
        /\ (~IsOk /\ Count("unsafe_call") = 1) =>
              /\ NotAdjacent
              /\ last.trace[Len(last.trace)] = Ev("adjacent", FALSE)

C7_Witness ==
    /\ last.op = "concat_slice"
    /\ NotAdjacent
    /\ Count("unsafe_call") = 1
    /\ Count("from_raw_parts") = 0

\* C8: within(r) is true exactly when begin <= start(r) and
\* start(r) + byte_len(r) <= end; zero-length regions at any address of
\* begin..=end are within; a region with a byte before begin or after end is
\* not; every merge returns NotAdjacent when within is false for an operand.
C8_WithinGate ==
    Called =>
        LET ina == proof.begin <= last.a.addr
                      /\ last.a.addr + last.a.len * last.a.esz <= proof.end
            inb == proof.begin <= last.b.addr
                      /\ last.b.addr + last.b.len * last.b.esz <= proof.end
        IN  /\ last.trace[1] = Ev("within_a", ina)
            /\ ina => last.trace[2] = Ev("within_b", inb)
            /\ (last.a.len = 0 /\ last.a.addr \in proof.begin..proof.end)
                  => last.trace[1].ret
            /\ (\E x \in Bytes(last.a) : x < proof.begin \/ x >= proof.end)
                  => ~last.trace[1].ret
            /\ (~ina \/ ~inb) => NotAdjacent

C8_Witness ==
    /\ Called
    /\ last.a.len = 0
    /\ last.a.addr = proof.end
    /\ proof.begin < proof.end
    /\ last.trace[1] = Ev("within_a", TRUE)
    /\ ByteLen(last.b) > 0
    /\ EndAddr(last.b) = proof.end + 1
    /\ last.trace[2] = Ev("within_b", FALSE)
    /\ NotAdjacent

\* C9: a proof built by new or new_mut from a value at address p of n bytes
\* has begin = p and end = p + n, so begin <= end; new_mut gives the bounds
\* new gives and hands the reference back; no merge call changes the proof.
C9_ProofBounds ==
    /\ [](ctor # "none" =>
            /\ proof.begin = xobj.addr
            /\ proof.end = xobj.addr + xobj.len * xobj.esz
            /\ proof.begin <= proof.end
            /\ ctor = "new_mut" => mutref = xobj)
    /\ [][ctor # "none" => proof' = proof /\ ctor' = ctor]_vars

C9_Witness ==
    /\ ctor = "new_mut"
    /\ xobj.esz = 2
    /\ proof.begin < proof.end
    /\ last.fed
    /\ IsOk

\* C10: a region returned by any merge lies in the witnessed range and its
\* bytes are exactly the bytes of the two operands, also when operands are
\* results of earlier merges.
C10_MergeClosed ==
    (Called /\ IsOk) =>
        /\ InProof(last.val)
        /\ Bytes(last.val) = Bytes(last.a) \cup Bytes(last.b)

C10_Witness ==
    /\ Called
    /\ IsOk
    /\ last.fed
    /\ ByteLen(last.a) > 0
    /\ ByteLen(last.b) > 0
    /\ ByteLen(last.val) = MaxAlloc

====
